---- MODULE Spec2Model ----
(***************************************************************************)
(* Model of the Telegram download bot (deckvig/xhs-download-bot).          *)
(*                                                                         *)
(* The repository holds three revisions of the same program:               *)
(*   "cmd"    src/Dockerfile (lines 32-280): gallery-dl command, with      *)
(*            runDownloadWithRetry;                                        *)
(*   "http"   src/unnamed/part_000: HTTP backend, one attempt per URL;     *)
(*   "legacy" src/main.go: HTTP backend, whole message text as the URL.    *)
(* A deployment runs exactly one of them: variant is chosen in Init and    *)
(* never changes.                                                          *)
(***************************************************************************)
EXTENDS Integers, Sequences, FiniteSets, TLC

VARIABLES
    variant,       \* which revision of main() is deployed
    pc,            \* position of the process in main()
    fileExists,    \* last_update_id.txt exists
    fileData,      \* its content, a sequence of characters
    data,          \* the bytes os.WriteFile is writing
    lastUpdateID,  \* main's local lastUpdateID (the in-memory checkpoint)
    updates,       \* the batch returned by getUpdates
    idx,           \* position of the range loop over updates (1-based)
    urls,          \* urlsToDownload of the current message
    uidx,          \* position of the range loop over urlsToDownload
    i,             \* loop counter of runDownloadWithRetry
    lastErr,       \* lastErr of runDownloadWithRetry
    ret,           \* the error runDownloadWithRetry returned
    srv,           \* the messaging server: the updates it has issued
    log,           \* history: what main did for the update being processed
    dlog,          \* history: what the current runDownloadWithRetry call did
    handled,       \* history: update ids fully handled by some run
    cpAtFetch,     \* history: lastUpdateID when the batch was fetched
    lastOffset,    \* history: offset of the previous getUpdates of this run
    failedIds,     \* history: ids of this run whose downloads all failed
    config,        \* which settings the environment of the process provides
    lost,          \* history: the sendMessage of the last step returned an error
    loaded,        \* history: what getLastUpdateID returned to this run and
                   \* whether it read the file, kept up to the first batch
    fileBefore     \* history: the file when saveLastUpdateID was called

vars == << variant, pc, fileExists, fileData, data, lastUpdateID,
           updates, idx, urls, uidx, i, lastErr, ret, srv, log, dlog,
           handled, cpAtFetch, lastOffset, failedIds, config, lost,
           loaded, fileBefore >>

----------------------------------------------------------------------------
(* Bounds *)

\* largest update id the server issues
MaxId == 10
\* the server issues the two ids below and at MaxId
FirstId == MaxId - 1
\* longest batch an offset-ignoring server returns (SpecAny)
MaxBatch == 1

(* Program constants *)

\* const maxRetries = 3
maxRetries == 3

Variants == {"cmd", "http", "legacy"}

----------------------------------------------------------------------------
(* Message texts.  A text is a sequence of one-character strings; the      *)
(* full-width comma U+FF0C is written FullWidthComma.                      *)

FullWidthComma == "U+FF0C"

UrlA == <<
    "h","t","t","p","s",":","/","/","e","x","a","m","p","l","e",".","c","o",
    "m","/","a" >>

UrlB == <<
    "h","t","t","p","s",":","/","/","e","x","a","m","p","l","e",".","c","o",
    "m","/","b" >>

UrlC == <<
    "h","t","t","p",":","/","/","a",".","c","o","/","1" >>

UrlD == <<
    "h","t","t","p","s",":","/","/","a",".","c","o","/","2" >>

TextNoLinks == <<
    "n","o"," ","l","i","n","k","s"," ","h","e","r","e" >>

TextOneLink == <<
    "s","e","e"," ","h","t","t","p",":","/","/","a",".","c","o","/","1" >>

TextAsciiComma == <<
    "c","h","e","c","k"," ","t","h","i","s"," ","o","u","t"," ","h","t","t",
    "p","s",":","/","/","e","x","a","m","p","l","e",".","c","o","m","/","a",
    ",","h","t","t","p","s",":","/","/","e","x","a","m","p","l","e",".","c",
    "o","m","/","b"," ","t","h","a","n","k","s" >>

TextFullWidthComma == <<
    "h","t","t","p",":","/","/","a",".","c","o","/","1",FullWidthComma,"h",
    "t","t","p","s",":","/","/","a",".","c","o","/","2" >>

\* The Message field of an Update: "nil" (absent) or the key of its Text.
NilMessage == "nil"
TextKeys == {"nolinks", "onelink", "asciicomma", "fullwidth"}
Messages == {NilMessage} \cup TextKeys

TextOf(m) ==
    CASE m = "nolinks"    -> TextNoLinks
      [] m = "onelink"    -> TextOneLink
      [] m = "asciicomma" -> TextAsciiComma
      [] m = "fullwidth"  -> TextFullWidthComma

----------------------------------------------------------------------------
(* extractUrls: urlRegex.FindAllString(message, -1) with                   *)
(* urlRegex = `https?://[^\s，]+` (leftmost, greedy, non-overlapping).     *)

\* \s of Go's regexp: [\t\n\f\r ]
IsSpace(c) == c \in {" ", "\t", "\n", "\f", "\r"}

\* mutant: the ASCII comma ends a URL too
UrlCharNoComma(c) == ~IsSpace(c) /\ c # FullWidthComma /\ c # ","

\* [^\s，]
UrlChar(c) == ~IsSpace(c) /\ c # FullWidthComma

HasPrefixAt(t, p, pre) ==
    /\ p + Len(pre) - 1 <= Len(t)
    /\ \A k \in 1..Len(pre) : t[p + k - 1] = pre[k]

\* length of `https?://` matched at p, 0 when it does not match there
SchemeLen(t, p) ==
    IF HasPrefixAt(t, p, <<"h","t","t","p","s",":","/","/">>) THEN 8
    ELSE IF HasPrefixAt(t, p, <<"h","t","t","p",":","/","/">>) THEN 7
    ELSE 0

\* last position of the run of UrlChar that holds position q
RECURSIVE RunEnd(_, _)
RunEnd(t, q) ==
    IF q + 1 <= Len(t) /\ UrlChar(t[q + 1]) THEN RunEnd(t, q + 1) ELSE q

\* end of the match of urlRegex that starts at p, 0 when there is none
MatchEnd(t, p) ==
    LET n == SchemeLen(t, p) IN
    IF n = 0 \/ p + n > Len(t) THEN 0
    ELSE IF ~UrlChar(t[p + n]) THEN 0
    ELSE RunEnd(t, p + n)

RECURSIVE ExtractFrom(_, _)
ExtractFrom(t, p) ==
    IF p > Len(t) THEN << >>
    ELSE LET e == MatchEnd(t, p) IN
         IF e = 0 THEN ExtractFrom(t, p + 1)
         ELSE << SubSeq(t, p, e) >> \o ExtractFrom(t, e + 1)

extractUrls(message) == ExtractFrom(message, 1)

----------------------------------------------------------------------------
(* The checkpoint file: fmt.Sprintf("%d") and fmt.Sscanf("%d").            *)

DigitChars == <<"0","1","2","3","4","5","6","7","8","9">>

IsDigit(c) == \E d \in 1..10 : DigitChars[d] = c

DigitVal(c) == (CHOOSE d \in 1..10 : DigitChars[d] = c) - 1

\* fmt.Sprintf("%d", n) for n >= 0
RECURSIVE FormatInt(_)
FormatInt(n) ==
    IF n < 10 THEN << DigitChars[n + 1] >>
    ELSE FormatInt(n \div 10) \o << DigitChars[(n % 10) + 1] >>

\* number of leading decimal digits of s
RECURSIVE LeadingDigits(_)
LeadingDigits(s) ==
    IF s = << >> \/ ~IsDigit(Head(s)) THEN 0 ELSE 1 + LeadingDigits(Tail(s))

RECURSIVE DigitsValue(_, _)
DigitsValue(s, acc) ==
    IF s = << >> THEN acc
    ELSE DigitsValue(Tail(s), acc * 10 + DigitVal(Head(s)))

\* fmt.Sscanf(s, "%d", &v): the leading digits are the number, what follows
\* them is ignored; no leading digit is an error
Sscanf(s) ==
    LET k == LeadingDigits(s) IN
    IF k = 0 THEN [val |-> 0, err |-> TRUE]
    ELSE [val |-> DigitsValue(SubSeq(s, 1, k), 0), err |-> FALSE]

\* mutant: content that does not parse is read as 0 without error
getLastUpdateIDLenient(readOk) ==
    IF ~fileExists \/ ~readOk \/ Sscanf(fileData).err
    THEN [val |-> 0, err |-> FALSE]
    ELSE Sscanf(fileData)

\* getLastUpdateID; readOk is whether os.ReadFile succeeds
getLastUpdateID(readOk) ==
    IF ~fileExists THEN [val |-> 0, err |-> FALSE]
    ELSE IF ~readOk THEN [val |-> 0, err |-> FALSE]
    ELSE Sscanf(fileData)

----------------------------------------------------------------------------
(* The download mechanisms.  An error is an integer, 0 is nil.             *)

NoErr == 0

\* exit status of the gallery-dl command
ExitCodes == 0..2

\* outcome of the POST to the backend: -1 is a transport error, any other
\* value is the response's status code
TransportError == -1
HttpResponses == {TransportError, 200, 201, 500}

\* the error download of src/Dockerfile returns when HTTP_PROXY is not set
ProxyNotSet == -2

\* download of src/Dockerfile: without HTTP_PROXY the command is not run;
\* cmd.Run() fails on a non-zero exit status
downloadCmd(exit, proxySet) == IF ~proxySet THEN ProxyNotSet ELSE exit

\* what http.Post(backendURL, ...) can come back with: without BACKEND_URL
\* the URL is empty and the request is never sent
BackendAnswers(backendSet) ==
    IF backendSet THEN HttpResponses ELSE {TransportError}

\* download of src/unnamed/part_000: res.StatusCode != http.StatusOK fails
downloadHttp(resp) == IF resp = 200 THEN NoErr ELSE resp

\* download of src/main.go: only a transport error fails, the status code
\* is not looked at
downloadLegacy(resp) == IF resp = TransportError THEN TransportError ELSE NoErr

\* the error value runDownloadWithRetry returns; nil is NoError
NoError == [attempts |-> 0, wraps |-> NoErr]
FinalError(n, err) == [attempts |-> n, wraps |-> err]

\* mutant: the last failed attempt is followed by a notification and a sleep
RetryAgainAfterLast(k) == k < maxRetries

\* `if i < maxRetries-1`: a failed attempt that is followed by another one
RetryAgain(k) == k < maxRetries - 1

\* mutant: the attempt number is the zero-based loop counter
AttemptNumberZeroBased(k) == k

\* the attempt number the log lines and notifications carry: i+1
AttemptNumber(k) == k + 1

----------------------------------------------------------------------------
(* Events of the history variables log (main) and dlog (the dispatcher).   *)
(*   k  kind: "nourl", "found", "call", "attempt", "retrying", "sleep",    *)
(*      "success", "failed", "terminated" and "return_ok" (main saw        *)
(*      runDownloadWithRetry return nil)                                   *)
(*   u  position of the URL in urlsToDownload (0: about the message)       *)
(*   n  attempt number, or the URL count of "found" (0: none)              *)
(*   by "main" or "dispatcher" (runDownloadWithRetry)                      *)
(*   e  the error of the attempt or of the notification (NoErr: none)      *)

Ev(k, u, n, by, e) == [k |-> k, u |-> u, n |-> n, by |-> by, e |-> e]

NotificationKinds == {"nourl", "found", "retrying", "success", "failed",
                      "terminated"}

\* mutant: the count notification is sent also for a message without URL
FirstNotificationAlwaysCount(n) == Ev("found", 0, n, "main", NoErr)

\* the notification main sends after extractUrls found n URLs
FirstNotification(n) ==
    IF n = 0 THEN Ev("nourl", 0, 0, "main", NoErr)
    ELSE Ev("found", 0, n, "main", NoErr)

\* mutant: main reports success whatever download returned
OutcomeNoteAlwaysSuccess(u, err) == Ev("success", u, 0, "main", NoErr)

\* part_000: the notification main sends after download(url) returned err
OutcomeNote(u, err) ==
    IF err # NoErr THEN Ev("failed", u, 0, "main", err)
    ELSE Ev("success", u, 0, "main", NoErr)

\* mutant: a failed sendMessage abandons the message
AbortOnSendError(next, sendErr) == IF sendErr THEN "advance" ELSE next

\* `sendMessage(chatID, ...)` is a call statement: the error it returns is
\* dropped and control goes on to next
IgnoreSendError(next, sendErr) == next

----------------------------------------------------------------------------
(* The environment of the process.                                         *)

\* the settings the revisions read: TELEGRAM_BOT_TOKEN, BACKEND_URL and
\* HTTP_PROXY (TRUE: set to a non-empty string); at most one is missing
Configs ==
    {c \in [token : BOOLEAN, backend : BOOLEAN, proxy : BOOLEAN] :
        Cardinality({f \in {"token", "backend", "proxy"} : ~c[f]}) <= 1}

\* `if telegramBotToken == "" || backendURL == "" { log.Fatal(...) }` of
\* src/Dockerfile and part_000; src/main.go has no such check
ConfigFatal(v, c) == v \in {"cmd", "http"} /\ (~c.token \/ ~c.backend)

\* the file as os.Stat and os.ReadFile see it
FileState(exists, content) == [exists |-> exists, data |-> content]

NoFile == FileState(FALSE, << >>)

----------------------------------------------------------------------------
(* The messaging server.  It issues update ids FirstId, FirstId+1, ...     *)

UpdateAt(k) == [UpdateID |-> FirstId + k - 1, Message |-> srv[k]]

IssuedIds == {FirstId + k - 1 : k \in 1..Len(srv)}

\* mutant: the offset is the checkpoint itself
FetchOffsetNoIncrement(last) == last

\* offset=%d of the getUpdates URL
FetchOffset(last) == last + 1

\* what the server answers to getUpdates(offset): every update it holds with
\* an id of at least offset, in ascending order of id
Pending(offset) ==
    LET k0 == IF offset > FirstId THEN offset - FirstId + 1 ELSE 1
        n  == IF Len(srv) >= k0 THEN Len(srv) - k0 + 1 ELSE 0
    IN  [j \in 1..n |-> UpdateAt(k0 + j - 1)]

\* getUpdates(lastUpdateID) when the call succeeds
getUpdates(last) == Pending(FetchOffset(last))

\* batches of a server that does not honour the offset (stale, repeated or
\* out-of-order updates), at most MaxBatch long
RECURSIVE SeqsUpTo(_, _)
SeqsUpTo(S, n) ==
    IF n = 0 THEN { << >> }
    ELSE LET shorter == SeqsUpTo(S, n - 1) IN
         shorter \cup { Append(q, x) : q \in shorter, x \in S }

AnyBatches == SeqsUpTo({UpdateAt(k) : k \in 1..Len(srv)}, MaxBatch)

----------------------------------------------------------------------------
(* State after construction: nothing fetched; the checkpoint file is       *)
(* missing (first deployment) or holds text that is not a number.          *)

Init ==
    /\ variant \in Variants
    /\ pc = "start"
    /\ \/ fileExists = FALSE /\ fileData = << >>
       \/ fileExists = TRUE /\ fileData = << "x" >>
    /\ data = << >>
    /\ lastUpdateID = 0
    /\ updates = << >>
    /\ idx = 1
    /\ urls = << >>
    /\ uidx = 1
    /\ i = 0
    /\ lastErr = NoErr
    /\ ret = NoError
    /\ srv = << >>
    /\ log = << >>
    /\ dlog = << >>
    /\ handled = {}
    /\ cpAtFetch = 0
    /\ lastOffset = 0
    /\ failedIds = {}
    /\ config \in Configs
    /\ variant # "cmd" => config.proxy
    /\ lost = FALSE
    /\ loaded = << >>
    /\ fileBefore = NoFile

\* the server receives a message (or another kind of update) from a user;
\* the process only observes the server's queue in getUpdates
NewUpdate ==
    /\ pc = "poll"
    /\ FirstId + Len(srv) <= MaxId
    /\ \E m \in Messages : srv' = Append(srv, m)
    /\ UNCHANGED << lost, loaded, fileBefore, config,
                    variant, pc, fileExists, fileData, data,
                    lastUpdateID, updates, idx, urls, uidx, i, lastErr, ret,
                    log, handled, cpAtFetch, lastOffset, failedIds,
                    dlog >>

\* main, up to the loop: the check of the settings (not in src/main.go),
\* getLastUpdateID, log.Fatalf on its error
Start ==
    /\ pc = "start"
    /\ \E readOk \in BOOLEAN :
         LET r == getLastUpdateID(readOk) IN
         IF ConfigFatal(variant, config) \/ r.err
         THEN /\ pc' = "exited"
              /\ UNCHANGED << lastUpdateID, loaded >>
         ELSE /\ pc' = "poll"
              /\ lastUpdateID' = r.val
              /\ loaded' = << [val |-> r.val,
                              read |-> fileExists /\ readOk] >>
    /\ UNCHANGED << lost, fileBefore, config,
                    variant, fileExists, fileData, data, updates, idx,
                    urls, uidx, i, lastErr, ret, srv, log, handled,
                    cpAtFetch, lastOffset, failedIds,
                    dlog >>

\* mutant: the error path falls through to saveLastUpdateID before it sleeps
PollErrSaves ==
    /\ pc = "poll"
    /\ pc' = "fetch_sleep"
    /\ lastOffset' = FetchOffset(lastUpdateID)
    /\ fileExists' = TRUE
    /\ fileData' = FormatInt(lastUpdateID)
    /\ UNCHANGED << lost, loaded, fileBefore, config,
                    variant, data, lastUpdateID,
                    updates, idx, urls, uidx, i, lastErr, ret, srv, log,
                    handled, cpAtFetch, failedIds,
                    dlog >>

\* getUpdates returns an error: time.Sleep(5s); continue
PollErr ==
    /\ pc = "poll"
    /\ pc' = "fetch_sleep"
    /\ lastOffset' = FetchOffset(lastUpdateID)
    /\ UNCHANGED << lost, loaded, fileBefore, config,
                    variant, fileExists, fileData, data, lastUpdateID,
                    updates, idx, urls, uidx, i, lastErr, ret, srv, log,
                    handled, cpAtFetch, failedIds,
                    dlog >>

FetchSleep ==
    /\ pc = "fetch_sleep"
    /\ pc' = "poll"
    /\ UNCHANGED << lost, loaded, fileBefore, config,
                    variant, fileExists, fileData, data, lastUpdateID,
                    updates, idx, urls, uidx, i, lastErr, ret, srv, log,
                    handled, cpAtFetch, lastOffset, failedIds,
                    dlog >>

\* the range loop over `batch` begins (an empty batch goes straight to save)
Fetched(batch) ==
    /\ updates' = batch
    /\ idx' = 1
    /\ cpAtFetch' = lastUpdateID
    /\ lastOffset' = FetchOffset(lastUpdateID)
    /\ log' = << >>
    /\ pc' = IF batch = << >> THEN "save" ELSE "update"
    /\ UNCHANGED << lost, loaded, fileBefore, config,
                    variant, fileExists, fileData, data, lastUpdateID,
                    urls, uidx, i, lastErr, ret, srv, handled, failedIds,
                    dlog >>

\* getUpdates succeeds against a server that honours the offset
PollOk ==
    /\ pc = "poll"
    /\ config.token
    /\ Fetched(getUpdates(lastUpdateID))

\* getUpdates succeeds against a server that returns any batch
PollAny ==
    /\ pc = "poll"
    /\ config.token
    /\ \E batch \in AnyBatches : Fetched(batch)

\* body of the range loop of src/Dockerfile and part_000, up to the URL loop
Update ==
    /\ pc = "update"
    /\ variant \in {"cmd", "http"}
    /\ LET u == updates[idx] IN
       IF u.Message # NilMessage
       THEN LET urlsToDownload == extractUrls(TextOf(u.Message)) IN
            /\ urls' = urlsToDownload
            /\ uidx' = 1
            /\ log' = << FirstNotification(Len(urlsToDownload)) >>
            /\ \E sendErr \in BOOLEAN :
                 /\ lost' = sendErr
                 /\ pc' = IgnoreSendError(
                             IF Len(urlsToDownload) = 0 THEN "advance"
                             ELSE "url", sendErr)
       ELSE /\ urls' = << >>
            /\ uidx' = 1
            /\ log' = << >>
            /\ pc' = "advance"
            /\ UNCHANGED lost
    /\ loaded' = << >>
    /\ UNCHANGED << fileBefore, config,
                    variant, fileExists, fileData, data, lastUpdateID,
                    updates, idx, i, lastErr, ret, srv, handled, cpAtFetch,
                    lastOffset, failedIds,
                    dlog >>

\* mutant: the URL loop ends after its first URL
AfterUrlBreaks == "advance"

\* where the URL loop goes after the URL at position uidx
AfterUrl == IF uidx + 1 > Len(urls) THEN "advance" ELSE "url"

\* src/Dockerfile: the URL loop calls runDownloadWithRetry(url, chatID)
Dispatch ==
    /\ pc = "url"
    /\ variant = "cmd"
    /\ i' = 0
    /\ lastErr' = NoErr
    /\ ret' = NoError
    /\ log' = Append(log, Ev("call", uidx, 0, "main", NoErr))
    /\ dlog' = << >>
    /\ pc' = "attempt"
    /\ lost' = FALSE
    /\ UNCHANGED << loaded, fileBefore, config,
                    variant, fileExists, fileData, data, lastUpdateID,
                    updates, idx, urls, uidx, srv, handled, cpAtFetch,
                    lastOffset, failedIds >>

\* one iteration of the loop of runDownloadWithRetry
Attempt ==
    /\ pc = "attempt"
    /\ \E exit \in ExitCodes :
         LET err == downloadCmd(exit, config.proxy)
             n   == AttemptNumber(i)
             att == Ev("attempt", uidx, n, "dispatcher", err)
         IN
         IF err = NoErr
         THEN /\ dlog' = dlog \o << att,
                            Ev("success", uidx, n, "dispatcher", NoErr) >>
              /\ ret' = NoError
              /\ \E sendErr \in BOOLEAN :
                   /\ lost' = sendErr
                   /\ pc' = IgnoreSendError("returned", sendErr)
              /\ i' = 0
              /\ lastErr' = NoErr
         ELSE /\ lastErr' = err
              /\ i' = i + 1
              /\ dlog' = IF RetryAgain(i)
                         THEN dlog \o << att,
                                Ev("retrying", uidx, n, "dispatcher", err),
                                Ev("sleep", uidx, n, "dispatcher", NoErr) >>
                         ELSE Append(dlog, att)
              /\ \E sendErr \in (IF RetryAgain(i) THEN BOOLEAN ELSE {FALSE}) :
                   /\ lost' = sendErr
                   /\ pc' = IgnoreSendError(
                               IF i + 1 < maxRetries THEN "attempt"
                               ELSE "exhausted", sendErr)
              /\ UNCHANGED ret
    /\ UNCHANGED << loaded, fileBefore, config,
                    variant, fileExists, fileData, data, lastUpdateID,
                    updates, idx, urls, uidx, srv, log, handled, cpAtFetch,
                    lastOffset, failedIds >>

\* runDownloadWithRetry after its loop: the final error
Exhausted ==
    /\ pc = "exhausted"
    /\ ret' = FinalError(maxRetries, lastErr)
    /\ pc' = "returned"
    /\ i' = 0
    /\ lastErr' = NoErr
    /\ UNCHANGED << lost, loaded, fileBefore, config,
                    variant, fileExists, fileData, data, lastUpdateID,
                    updates, idx, urls, uidx, srv, log, dlog, handled,
                    cpAtFetch, lastOffset, failedIds >>

\* mutant: main sends the task-terminated notification after every call
AfterDispatchAlwaysNotifies ==
    /\ pc = "returned"
    /\ log' = IF ret # NoError
              THEN Append(log, Ev("terminated", uidx, 0, "main", ret.wraps))
              ELSE log \o << Ev("return_ok", uidx, 0, "main", NoErr),
                             Ev("terminated", uidx, 0, "main", ret.wraps) >>
    /\ uidx' = uidx + 1
    /\ \E sendErr \in BOOLEAN :
         /\ lost' = sendErr
         /\ pc' = IgnoreSendError(AfterUrl, sendErr)
    /\ UNCHANGED << loaded, fileBefore, config,
                    variant, fileExists, fileData, data, lastUpdateID,
                    updates, idx, urls, i, lastErr, ret, srv, dlog, handled,
                    cpAtFetch, lastOffset, failedIds >>

\* src/Dockerfile: main after runDownloadWithRetry returned
AfterDispatch ==
    /\ pc = "returned"
    /\ log' = IF ret # NoError
              THEN Append(log, Ev("terminated", uidx, 0, "main", ret.wraps))
              ELSE Append(log, Ev("return_ok", uidx, 0, "main", NoErr))
    /\ uidx' = uidx + 1
    /\ \E sendErr \in (IF ret # NoError THEN BOOLEAN ELSE {FALSE}) :
         /\ lost' = sendErr
         /\ pc' = IgnoreSendError(AfterUrl, sendErr)
    /\ UNCHANGED << loaded, fileBefore, config,
                    variant, fileExists, fileData, data, lastUpdateID,
                    updates, idx, urls, i, lastErr, ret, srv, dlog, handled,
                    cpAtFetch, lastOffset, failedIds >>

\* part_000: the URL loop calls download(url) once and reports its outcome
DownloadOnce ==
    /\ pc = "url"
    /\ variant = "http"
    /\ \E resp \in BackendAnswers(config.backend) :
         LET err == downloadHttp(resp) IN
         log' = log \o << Ev("attempt", uidx, 1, "main", err),
                          OutcomeNote(uidx, err) >>
    /\ uidx' = uidx + 1
    /\ \E sendErr \in BOOLEAN :
         /\ lost' = sendErr
         /\ pc' = IgnoreSendError(AfterUrl, sendErr)
    /\ UNCHANGED << loaded, fileBefore, config,
                    variant, fileExists, fileData, data, lastUpdateID,
                    updates, idx, urls, i, lastErr, ret, srv, handled,
                    cpAtFetch, lastOffset, failedIds,
                    dlog >>

\* src/main.go: body of the range loop; update.Message.Text of an update
\* without message dereferences nil and the process panics
LegacyUpdate ==
    /\ pc = "update"
    /\ variant = "legacy"
    /\ LET u == updates[idx] IN
       IF u.Message = NilMessage
       THEN /\ pc' = "panicked"
            /\ log' = << >>
            /\ UNCHANGED lost
       ELSE /\ \E resp \in BackendAnswers(config.backend) :
                 LET err == downloadLegacy(resp) IN
                 log' = << Ev("attempt", 0, 1, "main", err),
                           IF err # NoErr
                           THEN Ev("failed", 0, 0, "main", err)
                           ELSE Ev("success", 0, 0, "main", NoErr) >>
            /\ \E sendErr \in BOOLEAN :
                 /\ lost' = sendErr
                 /\ pc' = IgnoreSendError("advance", sendErr)
    /\ loaded' = << >>
    /\ UNCHANGED << fileBefore, config,
                    variant, fileExists, fileData, data, lastUpdateID,
                    updates, idx, urls, uidx, i, lastErr, ret, srv, handled,
                    cpAtFetch, lastOffset, failedIds,
                    dlog >>

\* mutant: the checkpoint holds the next offset instead of the last id
NextCheckpointAsOffset(cur, uid) == IF uid > cur THEN uid + 1 ELSE cur

\* mutant: the comparison with the current checkpoint is dropped
NextCheckpointUnguarded(cur, uid) == uid

\* `if update.UpdateID > lastUpdateID { lastUpdateID = update.UpdateID }`
NextCheckpoint(cur, uid) == IF uid > cur THEN uid ELSE cur

\* every download of the message failed (and there was one)
AllFailed(l) ==
    /\ \E j \in 1..Len(l) : l[j].k \in {"call", "attempt"}
    /\ ~ \E j \in 1..Len(l) : l[j].k \in {"return_ok", "success"}

\* history: the update at idx is fully handled: its URLs were extracted and
\* each of them was taken to its terminal outcome (legacy: the download of
\* the text was attempted)
FullyHandled ==
    LET u == updates[idx] IN
    \/ u.Message = NilMessage
    \/ /\ variant = "legacy"
       /\ \E j \in 1..Len(log) : log[j].k = "attempt"
    \/ /\ variant # "legacy"
       /\ urls = extractUrls(TextOf(u.Message))
       /\ \A n \in 1..Len(urls) :
            \E j \in 1..Len(log) :
               /\ log[j].u = n
               /\ log[j].k \in {"return_ok", "terminated", "success",
                                "failed"}

\* mutant: the checkpoint moves only when a download of the update succeeded
AdvanceIfDownloaded ==
    /\ pc = "advance"
    /\ LET u == updates[idx] IN
       /\ lastUpdateID' = IF AllFailed(log) THEN lastUpdateID
                          ELSE NextCheckpoint(lastUpdateID, u.UpdateID)
       /\ handled' = IF FullyHandled THEN handled \cup {u.UpdateID}
                     ELSE handled
       /\ failedIds' = IF AllFailed(log) THEN failedIds \cup {u.UpdateID}
                       ELSE failedIds
    /\ idx' = idx + 1
    /\ urls' = << >>
    /\ uidx' = 1
    /\ ret' = NoError
    /\ dlog' = << >>
    /\ pc' = IF idx + 1 > Len(updates) THEN "save" ELSE "update"
    /\ lost' = FALSE
    /\ UNCHANGED << loaded, fileBefore, config,
                    variant, fileExists, fileData, data, updates, i,
                    lastErr, srv, log, cpAtFetch, lastOffset >>

\* end of the body of the range loop: the checkpoint moves to the update
Advance ==
    /\ pc = "advance"
    /\ LET u == updates[idx] IN
       /\ lastUpdateID' = NextCheckpoint(lastUpdateID, u.UpdateID)
       /\ handled' = IF FullyHandled THEN handled \cup {u.UpdateID}
                     ELSE handled
       /\ failedIds' = IF AllFailed(log) THEN failedIds \cup {u.UpdateID}
                       ELSE failedIds
    /\ idx' = idx + 1
    /\ urls' = << >>
    /\ uidx' = 1
    /\ ret' = NoError
    /\ dlog' = << >>
    /\ pc' = IF idx + 1 > Len(updates) THEN "save" ELSE "update"
    /\ lost' = FALSE
    /\ UNCHANGED << loaded, fileBefore, config,
                    variant, fileExists, fileData, data, updates, i,
                    lastErr, srv, log, cpAtFetch, lastOffset >>

\* saveLastUpdateID(lastUpdateID): os.WriteFile opens the file with
\* O_CREATE|O_TRUNC; when the open fails the file is untouched and the error
\* is logged
SaveOpen ==
    /\ pc = "save"
    /\ \/ /\ fileExists' = TRUE
          /\ fileData' = << >>
          /\ data' = FormatInt(lastUpdateID)
          /\ pc' = "write"
       \/ /\ pc' = "sleep"
          /\ UNCHANGED << fileExists, fileData, data >>
    /\ fileBefore' = FileState(fileExists, fileData)
    /\ log' = << >>
    /\ loaded' = << >>
    /\ UNCHANGED << lost, config,
                    variant, lastUpdateID, updates, idx, urls, uidx, i,
                    lastErr, ret, srv, handled, cpAtFetch, lastOffset,
                    failedIds,
                    dlog >>

\* os.WriteFile writes the bytes; a failing write leaves a prefix of them and
\* the error is logged
SaveWrite ==
    /\ pc = "write"
    /\ \/ fileData' = data
       \/ \E k \in 0..(Len(data) - 1) : fileData' = SubSeq(data, 1, k)
    /\ pc' = "sleep"
    /\ UNCHANGED << lost, loaded, fileBefore, config,
                    variant, fileExists, data, lastUpdateID, updates,
                    idx, urls, uidx, i, lastErr, ret, srv, log, handled,
                    cpAtFetch, lastOffset, failedIds,
                    dlog >>

\* time.Sleep(2s) at the end of the loop body; the locals of the iteration
\* go out of scope
LoopSleep ==
    /\ pc = "sleep"
    /\ pc' = "poll"
    /\ updates' = << >>
    /\ idx' = 1
    /\ data' = << >>
    /\ cpAtFetch' = 0
    /\ lost' = FALSE
    /\ fileBefore' = NoFile
    /\ UNCHANGED << loaded, config,
                    variant, fileExists, fileData, lastUpdateID, urls,
                    uidx, i, lastErr, ret, srv, log, handled, lastOffset,
                    failedIds,
                    dlog >>

\* the process is killed anywhere in the loop and started again: only the
\* file and the server survive
Crash ==
    /\ pc \notin {"start", "exited", "panicked"}
    /\ pc' = "start"
    /\ data' = << >>
    /\ lastUpdateID' = 0
    /\ updates' = << >>
    /\ idx' = 1
    /\ urls' = << >>
    /\ uidx' = 1
    /\ i' = 0
    /\ lastErr' = NoErr
    /\ ret' = NoError
    /\ log' = << >>
    /\ dlog' = << >>
    /\ cpAtFetch' = 0
    /\ lastOffset' = 0
    /\ failedIds' = {}
    /\ lost' = FALSE
    /\ loaded' = << >>
    /\ fileBefore' = NoFile
    /\ UNCHANGED << config,
                    variant, fileExists, fileData, srv, handled >>

\* every step but the successful getUpdates
Step ==
    \/ NewUpdate
    \/ Start
    \/ PollErr
    \/ FetchSleep
    \/ Update
    \/ Dispatch
    \/ Attempt
    \/ Exhausted
    \/ AfterDispatch
    \/ DownloadOnce
    \/ LegacyUpdate
    \/ Advance
    \/ SaveOpen
    \/ SaveWrite
    \/ LoopSleep
    \/ Crash

Next == PollOk \/ Step

NextAny == PollAny \/ Step

\* the program against a server that honours the offset of getUpdates
Spec == Init /\ [][Next]_vars

\* the program against a server that may return any batch
SpecAny == Init /\ [][NextAny]_vars

----------------------------------------------------------------------------
(* Properties                                                              *)

Max(a, b) == IF a >= b THEN a ELSE b

\* largest update id of a batch, 0 for the empty batch
RECURSIVE BatchMaxId(_)
BatchMaxId(b) ==
    IF b = << >> THEN 0 ELSE Max(Head(b).UpdateID, BatchMaxId(Tail(b)))

\* the checkpoint a restart would load now (0 when the file is missing or
\* does not parse: then no run starts from a checkpoint)
PersistedCheckpoint ==
    LET r == getLastUpdateID(TRUE) IN IF r.err THEN 0 ELSE r.val

\* the process is inside the range loop over the fetched batch
InBatch == pc \in {"update", "url", "attempt", "exhausted", "returned",
                   "advance"}

\* the process is past a successful getUpdates of the current iteration
InBatchOrSave == {"update", "url", "attempt", "exhausted", "returned",
                  "advance", "save", "write", "sleep", "panicked"}

\* no getUpdates was issued yet by the run that is polling
FreshRun == pc = "poll" /\ lastOffset = 0

\* C1: never-skip.  Every update the server has issued whose id is at most
\* the persisted checkpoint was fully handled by some run, also after a crash
\* anywhere in the loop (a save cut short included) and a restart; and
\* whenever a run polls, every issued update up to its in-memory checkpoint
\* was fully handled, so fetching from checkpoint+1 skips nothing.
C1_NeverSkip ==
    /\ \A id \in IssuedIds : id <= PersistedCheckpoint => id \in handled
    /\ pc \in {"poll", "fetch_sleep"} =>
         \A id \in IssuedIds : id <= lastUpdateID => id \in handled

\* C1 witness: a restarted run has reloaded the checkpoint MaxId, which an
\* earlier run saved after handling every issued update.
C1_Witness ==
    /\ FreshRun
    /\ lastUpdateID = MaxId
    /\ PersistedCheckpoint = MaxId
    /\ IssuedIds = FirstId..MaxId
    /\ handled = IssuedIds

\* C2: checkpoint advancement does not depend on download outcomes.  When the
\* range loop over a batch is over, the in-memory checkpoint is the larger of
\* the checkpoint at fetch time and the largest id of the batch; that value
\* is what saveLastUpdateID writes; and no update still to be processed by
\* this run is one whose downloads all failed earlier in the run.
C2_AdvanceIgnoresOutcome ==
    /\ pc \in {"save", "write"} =>
         lastUpdateID = Max(cpAtFetch, BatchMaxId(updates))
    /\ pc = "write" =>
         /\ data = FormatInt(Max(cpAtFetch, BatchMaxId(updates)))
         /\ Sscanf(data) =
              [val |-> Max(cpAtFetch, BatchMaxId(updates)), err |-> FALSE]
    /\ InBatch =>
         \A j \in idx..Len(updates) : updates[j].UpdateID \notin failedIds

\* C2 witness: in one run, every download of update FirstId failed, the next
\* batch held update MaxId, its downloads failed too, and the checkpoint to
\* save is MaxId.
C2_Witness ==
    /\ pc = "save"
    /\ failedIds = {FirstId, MaxId}
    /\ Len(updates) = 1
    /\ updates[1].UpdateID = MaxId
    /\ cpAtFetch = FirstId
    /\ lastUpdateID = MaxId

\* C3: within a run (no step is a restart) the in-memory checkpoint never
\* decreases and the offset of a getUpdates is never below the offset of the
\* previous one, whatever batches the server returns.
C3_Monotonic ==
    [][ pc' # "start" =>
          /\ lastUpdateID' >= lastUpdateID
          /\ lastOffset' >= lastOffset ]_vars

\* C3 witness: the range loop is at the end of the body for an update whose
\* id is below the current checkpoint (a stale update).
C3_Witness ==
    /\ pc = "advance"
    /\ updates[idx].UpdateID < lastUpdateID
    /\ lastOffset > 1

----------------------------------------------------------------------------
(* runDownloadWithRetry                                                    *)

\* the errors a failed attempt can have
AttemptErrors == (ExitCodes \ {NoErr}) \cup {ProxyNotSet}

\* what the dispatcher does around failed attempt a of URL u: the attempt,
\* the retrying notification, the backoff sleep
FailRound(u, a, e) ==
    << Ev("attempt", u, a, "dispatcher", e),
       Ev("retrying", u, a, "dispatcher", e),
       Ev("sleep", u, a, "dispatcher", NoErr) >>

RECURSIVE FailRounds(_, _, _)
FailRounds(u, errs, a) ==
    IF a > Len(errs) THEN << >>
    ELSE FailRound(u, a, errs[a]) \o FailRounds(u, errs, a + 1)

EveryAttemptFailed(l) ==
    \A j \in 1..Len(l) : l[j].k = "attempt" => l[j].e # NoErr

\* C4: when every attempt of a call fails, runDownloadWithRetry returns after
\* exactly 3 attempts, with a retrying notification and a sleep after
\* attempts 1 and 2 and nothing after attempt 3, and its error wraps the
\* error of attempt 3 and carries the count 3.
C4_AlwaysFailing ==
    (variant = "cmd" /\ pc = "returned" /\ EveryAttemptFailed(dlog)) =>
       \E e1 \in AttemptErrors, e2 \in AttemptErrors, e3 \in AttemptErrors :
          /\ dlog = FailRound(uidx, 1, e1) \o FailRound(uidx, 2, e2)
                    \o << Ev("attempt", uidx, 3, "dispatcher", e3) >>
          /\ ret = [attempts |-> 3, wraps |-> e3]

\* C4 witness: the call returned after three failures, the third with another
\* error than the first.
C4_Witness ==
    /\ variant = "cmd"
    /\ pc = "returned"
    /\ EveryAttemptFailed(dlog)
    /\ dlog[1].e = 1
    /\ ret = [attempts |-> 3, wraps |-> 2]

\* C5: when attempts 1..k-1 fail and attempt k succeeds (k in 1..3),
\* runDownloadWithRetry makes exactly k attempts, sends k-1 retrying
\* notifications and then one success notification tagged k, nothing after
\* it, and returns nil.
C5_SucceedsOnK ==
    (variant = "cmd" /\ pc = "returned" /\ ~EveryAttemptFailed(dlog)) =>
       \E k \in 1..3 : \E errs \in [1..(k - 1) -> AttemptErrors] :
          /\ dlog = FailRounds(uidx, errs, 1)
                    \o << Ev("attempt", uidx, k, "dispatcher", NoErr),
                          Ev("success", uidx, k, "dispatcher", NoErr) >>
          /\ ret = NoError

\* C5 witness: the call returned nil after two failures and a success.
C5_Witness ==
    /\ variant = "cmd"
    /\ pc = "returned"
    /\ ret = NoError
    /\ Len(dlog) = 8
    /\ dlog[8].k = "success"
    /\ dlog[8].n = 3

----------------------------------------------------------------------------
(* The main loop and its notifications                                     *)

\* number of events of l of a kind in kinds about URL u
CountKind(l, kinds, u) ==
    Cardinality({j \in 1..Len(l) : l[j].k \in kinds /\ l[j].u = u})

\* main has just dealt with the return of the call for URL uidx-1
UrlDone == pc \in {"url", "advance"} /\ uidx > 1

\* C6: for every URL main dispatches, exactly one terminal notification is
\* sent: success by the dispatcher or task-terminated by main; main sends
\* task-terminated exactly when the call returned an error, and sends no
\* success, retrying or failure notification of its own.
C6_OneTerminal ==
    variant = "cmd" =>
      /\ UrlDone =>
           LET u == uidx - 1 IN
           /\ dlog # << >> /\ dlog[1].u = u
           /\ CountKind(log, {"call"}, u) = 1
           /\ CountKind(dlog, {"success"}, u)
                + CountKind(log, {"terminated"}, u) = 1
           /\ CountKind(log, {"terminated"}, u) = 1 <=> ret # NoError
           /\ CountKind(log, {"return_ok"}, u) = 1 <=> ret = NoError
      /\ InBatch =>
           \A u \in 1..Len(urls) :
              CountKind(log, {"terminated"}, u)
                + CountKind(log, {"return_ok"}, u)
                   = (IF u < uidx THEN 1 ELSE 0)
      /\ \A j \in 1..Len(log) :
           /\ log[j].by = "main"
           /\ log[j].k \notin {"success", "retrying", "failed"}

\* C6 witness: a message with two URLs is done; the first call returned the
\* final error and main sent task-terminated, the second succeeded.
C6_Witness ==
    /\ variant = "cmd"
    /\ pc = "advance"
    /\ Len(urls) = 2
    /\ CountKind(log, {"terminated"}, 1) = 1
    /\ CountKind(log, {"return_ok"}, 2) = 1
    /\ CountKind(dlog, {"success"}, 2) = 1

\* the update the range loop has just finished
JustAdvanced == pc \in {"update", "save"} /\ idx > 1

IsMessage(u) == u.Message # NilMessage

NoUrls(u) == IsMessage(u) /\ extractUrls(TextOf(u.Message)) = << >>

\* C7: for a message without URL main sends exactly the "no URL found"
\* notification, calls neither the dispatcher nor download, sends nothing
\* else, and the checkpoint moves to the id of the message.
C7_NoUrl ==
    variant \in {"cmd", "http"} =>
      /\ (pc = "advance" /\ NoUrls(updates[idx])) =>
           /\ log = << Ev("nourl", 0, 0, "main", NoErr) >>
           /\ dlog = << >>
           /\ urls = << >>
      /\ (JustAdvanced /\ NoUrls(updates[idx - 1])) =>
           /\ log = << Ev("nourl", 0, 0, "main", NoErr) >>
           /\ lastUpdateID = updates[idx - 1].UpdateID

\* C7 witness: the batch held the message "no links here"; one notification
\* was sent and the checkpoint to save is the id of the message.
C7_Witness ==
    /\ variant = "cmd"
    /\ pc = "save"
    /\ Len(updates) = 1
    /\ updates[1].Message = "nolinks"
    /\ TextOf("nolinks") = TextNoLinks
    /\ log = << Ev("nourl", 0, 0, "main", NoErr) >>
    /\ lastUpdateID = updates[1].UpdateID
    /\ cpAtFetch < lastUpdateID

----------------------------------------------------------------------------
(* The ASCII-comma message                                                 *)

\* "https://example.com/a,https://example.com/b"
AsciiCommaUrl == UrlA \o << "," >> \o UrlB

\* positions in urlsToDownload of the dispatcher calls main made, in order
Calls(l) ==
    LET c == SelectSeq(l, LAMBDA e : e.k = "call") IN
    [j \in 1..Len(c) |-> c[j].u]

IsAsciiComma(u) == IsMessage(u) /\ TextOf(u.Message) = TextAsciiComma

\* C8 as claimed: from the message "check this out https://example.com/a,
\* https://example.com/b thanks" the extractor yields the two URLs, main
\* makes two dispatcher calls in that order, and the checkpoint moves to the
\* id of the message.
C8_Original ==
    variant = "cmd" =>
      /\ (pc \in {"url", "attempt", "exhausted", "returned", "advance"}
            /\ IsAsciiComma(updates[idx])) => urls = << UrlA, UrlB >>
      /\ (pc = "advance" /\ IsAsciiComma(updates[idx])) =>
           Calls(log) = << 1, 2 >>
      /\ (JustAdvanced /\ IsAsciiComma(updates[idx - 1])) =>
           lastUpdateID = updates[idx - 1].UpdateID

\* C8 amended: the ASCII comma is no boundary, so the extractor yields the
\* one string "https://example.com/a,https://example.com/b"; main makes
\* exactly one dispatcher call, for it, and the checkpoint moves to the id of
\* the message whatever the call returned.
C8_AsciiComma ==
    variant = "cmd" =>
      /\ (pc \in {"url", "attempt", "exhausted", "returned", "advance"}
            /\ IsAsciiComma(updates[idx])) => urls = << AsciiCommaUrl >>
      /\ (pc = "advance" /\ IsAsciiComma(updates[idx])) =>
           Calls(log) = << 1 >>
      /\ (JustAdvanced /\ IsAsciiComma(updates[idx - 1])) =>
           /\ Calls(log) = << 1 >>
           /\ lastUpdateID = updates[idx - 1].UpdateID

\* C8 witness: the batch held that one message, its single call returned the
\* final error, and the checkpoint to save is the id of the message.
C8_Witness ==
    /\ variant = "cmd"
    /\ pc = "save"
    /\ Len(updates) = 1
    /\ IsAsciiComma(updates[1])
    /\ CountKind(log, {"terminated"}, 1) = 1
    /\ lastUpdateID = updates[1].UpdateID
    /\ cpAtFetch < lastUpdateID

----------------------------------------------------------------------------
(* The retry contract across the revisions                                 *)

\* kind and attempt number of each event
Proj(l) == [j \in 1..Len(l) |-> << l[j].k, l[j].n >>]

\* the retry/notify contract for one URL: success on attempt k ...
ContractSuccess(k) ==
    Proj(FailRounds(0, [a \in 1..(k - 1) |-> 1], 1)
         \o << Ev("attempt", 0, k, "dispatcher", NoErr),
               Ev("success", 0, k, "dispatcher", NoErr) >>)

\* ... or three failures and the task-terminated notification
ContractFailure ==
    Proj(FailRounds(0, << 1, 1 >>, 1)
         \o << Ev("attempt", 0, 3, "dispatcher", 1),
               Ev("terminated", 0, 0, "main", 1) >>)

ContractTraces == {ContractSuccess(k) : k \in 1..3} \cup {ContractFailure}

\* what was done about URL u, in order: the dispatcher's events of the call
\* and main's own attempts and notifications
UrlEvents(u) ==
    SelectSeq(dlog, LAMBDA e : e.u = u)
      \o SelectSeq(log, LAMBDA e : e.u = u /\ e.k \notin {"call", "return_ok"})

----------------------------------------------------------------------------
(* Loading the checkpoint                                                  *)

\* the content of the file does not start with a decimal integer
Unparsable == fileExists /\ LeadingDigits(fileData) = 0

----------------------------------------------------------------------------
(* Restart                                                                 *)

\* a run has loaded its checkpoint from the file and has not yet gone
\* through a batch
Reloaded == loaded # << >> /\ loaded[1].read

----------------------------------------------------------------------------
(* Saving the checkpoint                                                   *)

\* the file after a complete write of the bytes being saved
FileWritten == FileState(TRUE, data)

\* C12 as claimed: save is crash-atomic.  When the process is killed while
\* saveLastUpdateID is writing value n over a file holding o, the file
\* afterwards holds o or n, and what it holds can be loaded by the restarted
\* process (it is missing or starts with a decimal integer).
C12_Original ==
    [][ (pc = "write" /\ pc' = "start") =>
          /\ FileState(fileExists', fileData') \in {fileBefore, FileWritten}
          /\ ~(fileExists' /\ Sscanf(fileData').err) ]_vars

----------------------------------------------------------------------------
(* Required settings                                                       *)

\* a setting the deployed variant requires is absent: the bot token, the
\* backend URL of a variant that posts to the backend, the proxy URL of the
\* command variant
MissingRequired ==
    \/ ~config.token
    \/ variant \in {"http", "legacy"} /\ ~config.backend
    \/ variant = "cmd" /\ ~config.proxy

\* C13 as claimed: with a required setting absent the process exits before
\* the main loop: no getUpdates is issued, no batch is fetched, no download
\* is attempted and no notification is sent.
C13_Original ==
    MissingRequired =>
       /\ pc \notin {"fetch_sleep"} \cup InBatchOrSave
       /\ lastOffset = 0
       /\ updates = << >>
       /\ log = << >> /\ dlog = << >>

----------------------------------------------------------------------------
(* Progress of the main loop                                               *)

\* the positions inside `for { ... }`
LoopPcs == {"poll", "fetch_sleep"} \cup (InBatchOrSave \ {"panicked"})

\* the largest number of URLs a message of the model holds
MaxUrls ==
    CHOOSE n \in 0..8 :
       /\ \A k \in TextKeys : Len(extractUrls(TextOf(k))) <= n
       /\ \E k \in TextKeys : Len(extractUrls(TextOf(k))) = n

\* steps one URL can take: the call, maxRetries attempts, the final error,
\* main's handling of the return
UrlSteps == maxRetries + 3

\* steps one update can take: the extraction, its URLs, the checkpoint
MessageSteps == 2 + UrlSteps * MaxUrls

\* upper bound of the steps the process still takes before it is back at
\* getUpdates
Rank ==
    LET later   == (Len(urls) - uidx) * UrlSteps
        waiting == (Len(updates) - idx) * MessageSteps
    IN  CASE pc = "poll"        -> 0
          [] pc = "fetch_sleep" -> 1
          [] pc = "sleep"       -> 1
          [] pc = "write"       -> 2
          [] pc = "save"        -> 3
          [] pc = "advance"     -> 4 + waiting
          [] pc = "update"      -> 3 + waiting + MessageSteps
          [] pc = "url"         -> 4 + waiting + later + UrlSteps
          [] pc = "attempt"     -> 4 + waiting + later + (maxRetries - i) + 2
          [] pc = "exhausted"   -> 4 + waiting + later + 2
          [] pc = "returned"    -> 4 + waiting + later + 1

\* C14 as claimed: once the main loop has started, no step of the process
\* (whatever fails in it: the fetch, a download attempt, the retries, the
\* checkpoint write, a notification) ends the process, and every step away
\* from getUpdates brings the loop nearer to the next getUpdates, so that the
\* processing of every batch terminates.  (A kill from outside is no step of
\* the process.)
C14_Original ==
    [][ (pc \in LoopPcs /\ pc' # "start") =>
          /\ pc' \in LoopPcs
          /\ pc # "poll" => Rank' < Rank ]_vars

----------------------------------------------------------------------------
(* The answer of the backend                                               *)

\* the error of a download carries a status code of the class 2xx
Is2xx(e) == e \in 200..299

\* the attempt main made for URL u, and the notification that followed it
AttemptOf(u) == SelectSeq(log, LAMBDA e : e.u = u /\ e.k = "attempt")[1]

NoteOf(u) ==
    SelectSeq(log, LAMBDA e : e.u = u /\ e.k \in {"success", "failed"})[1]

\* C15 as claimed: in the HTTP variant an attempt is a success exactly when
\* the POST came back with a 2xx status: it is reported as a failure only
\* when the POST failed in transport or came back with a status outside
\* 200..299, and as a success otherwise.
C15_Original ==
    (variant = "http" /\ UrlDone) =>
       LET a == AttemptOf(uidx - 1)
           failure == a.e = TransportError \/ (a.e # NoErr /\ ~Is2xx(a.e))
       IN  /\ NoteOf(uidx - 1).k = "failed" <=> failure
           /\ NoteOf(uidx - 1).k = "success" <=> ~failure

----------------------------------------------------------------------------
(* Notifications that fail                                                 *)

\* the URL at position n of the current message was taken to its end
Terminal(n) ==
    \E j \in 1..Len(log) :
       log[j].u = n /\ log[j].k \in {"return_ok", "terminated", "success",
                                      "failed"}

LastOf(l) == l[Len(l)]

\* C16: a failing sendMessage changes nothing but the chat.  In the state
\* right after a sendMessage returned an error the process is where it is
\* after a delivered one: still in the loop; after the count notification at
\* the first URL with all extracted URLs ahead; after a retrying notification
\* in the backoff before the next attempt; after a success notification
\* returning nil; after a terminal notification at the next URL, or at the
\* end of a message all of whose URLs were taken to their end; and the
\* checkpoint is what the updates already gone through make it.
C16_NotifyNotPropagated ==
    lost =>
      /\ pc \in {"url", "attempt", "returned", "advance"}
      /\ lastUpdateID =
            Max(cpAtFetch, BatchMaxId(SubSeq(updates, 1, idx - 1)))
      /\ variant # "legacy" =>
            /\ urls = extractUrls(TextOf(updates[idx].Message))
            /\ \A n \in 1..Len(urls) : Terminal(n) <=> n < uidx
      /\ pc = "url" =>
            /\ uidx <= Len(urls)
            /\ LastOf(log).k = "found" <=> uidx = 1
      /\ pc = "attempt" =>
            /\ i \in 1..(maxRetries - 1)
            /\ LastOf(dlog) = Ev("sleep", uidx, i, "dispatcher", NoErr)
            /\ lastErr = dlog[Len(dlog) - 1].e
      /\ pc = "returned" =>
            /\ ret = NoError
            /\ LastOf(dlog).k = "success"
      /\ pc = "advance" => FullyHandled

\* C16 witness: in the command variant a message with two URLs is done, the
\* second call returned the final error, and the task-terminated
\* notification for it was not delivered.
C16_Witness ==
    /\ lost
    /\ variant = "cmd"
    /\ pc = "advance"
    /\ Len(urls) = 2
    /\ LastOf(log).k = "terminated"
    /\ LastOf(log).u = 2
    /\ FullyHandled

----------------------------------------------------------------------------
(* A getUpdates that fails                                                 *)

\* what a failed getUpdates and the sleep after it leave alone: the
\* checkpoint in memory and in the file, the batch and loop positions, the
\* dispatcher, and every record of messages handled, downloads attempted and
\* notifications sent
FetchErrorFrame ==
    UNCHANGED << lastUpdateID, fileExists, fileData, data, fileBefore,
                 updates, idx, urls, uidx, i, lastErr, ret, log, dlog,
                 lost, handled, failedIds, cpAtFetch, loaded >>

\* C17: when getUpdates returns an error the loop goes to its 5 s sleep and
\* back to getUpdates and does nothing else: no message is processed, no
\* notification sent, no download attempted, nothing saved, the checkpoint
\* in memory and the file stay as they are, and the next getUpdates is
\* issued with the offset of the failed one.
C17_FetchErrorFrame ==
    [][ /\ (pc = "poll" /\ pc' = "fetch_sleep") =>
             /\ FetchErrorFrame
             /\ lastOffset' = FetchOffset(lastUpdateID)
             /\ updates = << >> /\ log = << >> /\ dlog = << >>
        /\ (pc = "fetch_sleep" /\ pc' # "start") =>
             /\ pc' = "poll"
             /\ FetchErrorFrame
             /\ lastOffset' = lastOffset
             /\ FetchOffset(lastUpdateID') = lastOffset
        /\ (pc = "poll" /\ pc' \in {"fetch_sleep", "update", "save"}) =>
             lastOffset' = FetchOffset(lastUpdateID) ]_vars

\* C17 witness: after update MaxId was handled and its checkpoint saved, a
\* getUpdates with offset MaxId+1 has failed and the loop sleeps.
C17_Witness ==
    /\ pc = "fetch_sleep"
    /\ lastUpdateID = MaxId
    /\ lastOffset = MaxId + 1
    /\ MaxId \in handled
    /\ fileData = FormatInt(MaxId)
    /\ loaded = << >>

----------------------------------------------------------------------------
(* A checkpoint write that fails                                           *)

\* C18 as claimed: when saveLastUpdateID fails (the file cannot be opened, or
\* the write after the open fails) the process stays in the loop, the
\* checkpoint in memory keeps its advanced value and the next getUpdates
\* uses it, the file keeps what it held before the save, and in every state
\* of the loop the persisted checkpoint is at most the one in memory.
C18_Original ==
    [][ /\ (pc = "save" /\ pc' = "sleep") =>
             /\ lastUpdateID' = lastUpdateID
             /\ FileState(fileExists', fileData') = fileBefore'
        /\ (pc = "write" /\ pc' = "sleep" /\ fileData' # data) =>
             /\ lastUpdateID' = lastUpdateID
             /\ FileState(fileExists', fileData') = fileBefore
        /\ (pc = "sleep" /\ pc' = "poll") =>
             /\ lastUpdateID' = lastUpdateID
             /\ UNCHANGED << fileExists, fileData >>
        /\ pc' \in LoopPcs => PersistedCheckpoint' <= lastUpdateID' ]_vars

----------------------------------------------------------------------------
(* Order of processing                                                     *)

\* every URL of update m was taken to its end (an update without message has
\* none)
Complete(m) ==
    \/ m.Message = NilMessage
    \/ \A n \in 1..Len(extractUrls(TextOf(m.Message))) : Terminal(n)

\* 1, 2, ..., n
UpTo(n) == [j \in 1..n |-> j]

\* C19: processing is sequential and in order.  For the message being
\* processed the first thing done is the count (or no-URL) notification; what
\* main does goes through the URLs in the order extractUrls listed them; the
\* URL at position uidx is started only when every URL before it has its
\* terminal outcome and none after it was touched; the dispatcher works on
\* that one URL, one attempt after the other; the next update is taken only
\* when every URL of the previous one has reached its end; and
\* saveLastUpdateID is called only after the last URL of the last update.
C19_Sequential ==
    variant \in {"cmd", "http"} =>
      /\ \A j \in 1..Len(log) : log[j].k \in {"found", "nourl"} <=> j = 1
      /\ \A j \in 1..(Len(log) - 1) : log[j].u <= log[j + 1].u
      /\ pc \in {"url", "attempt", "exhausted", "returned"} =>
            /\ uidx \in 1..Len(urls)
            /\ log[1].k = "found"
            /\ \A n \in 1..Len(urls) : Terminal(n) <=> n < uidx
            /\ \A j \in 1..Len(log) : log[j].u <= uidx
      /\ pc \in {"attempt", "exhausted", "returned"} =>
            /\ Calls(log) = UpTo(uidx)
            /\ LastOf(log) = Ev("call", uidx, 0, "main", NoErr)
            /\ \A j \in 1..Len(dlog) : dlog[j].u = uidx
            /\ LET a == SelectSeq(dlog, LAMBDA e : e.k = "attempt")
               IN  [j \in 1..Len(a) |-> a[j].n] = UpTo(Len(a))
      /\ (variant = "cmd" /\ pc \in {"url", "advance"}) =>
            Calls(log) = UpTo(uidx - 1)
      /\ JustAdvanced => Complete(updates[idx - 1])
      /\ (pc = "save" /\ updates # << >>) =>
            /\ idx = Len(updates) + 1
            /\ Complete(updates[Len(updates)])

\* C19 witness: the command variant has gone through a batch of two updates,
\* the second a message with two URLs, called the dispatcher for them in
\* order, and is about to save.
C19_Witness ==
    /\ variant = "cmd"
    /\ pc = "save"
    /\ Len(updates) = 2
    /\ IsMessage(updates[2])
    /\ Len(extractUrls(TextOf(updates[2].Message))) = 2
    /\ Calls(log) = << 1, 2 >>
    /\ Terminal(1) /\ Terminal(2)

----------------------------------------------------------------------------
(* The update without message                                              *)

\* what the claim says of an update without message, in the states after it
\* was taken from the batch: nothing was extracted, attempted or notified,
\* and once the loop has passed it the checkpoint is at its id or beyond
NilAcknowledged ==
    /\ (pc = "advance" /\ ~IsMessage(updates[idx])) =>
          /\ log = << >>
          /\ urls = << >>
          /\ ~lost
    /\ (JustAdvanced /\ ~IsMessage(updates[idx - 1])) =>
          /\ log = << >>
          /\ lastUpdateID >= updates[idx - 1].UpdateID

\* C20 as claimed: in every variant of the main loop an update that carries
\* no message is acknowledged without being processed: no URL is extracted,
\* no download attempted, no notification sent, the process does not end,
\* and the checkpoint advances to the id of the update.
C20_Original ==
    /\ pc # "panicked"
    /\ NilAcknowledged

====
